---- MODULE Spec2Model ----
(***************************************************************************)
(* The auction engine of src/src/routes/auction.js: the paced bid queue,   *)
(* the auto-bid evaluator, the phase controller with its deferred          *)
(* setup-to-bidding timer, and the delegation of bidding authority; the    *)
(* draft engine of src/src/routes/draft.js with its snake order; and the   *)
(* rows of the database they read and write (auction_state, teams,         *)
(* players, team_roster, auction_log, draft_log).                          *)
(*                                                                         *)
(* Time is kept relative to Date.now(): the pacing clocks of the program   *)
(* are modelled by their distance to the present (the time since           *)
(* lastBidTime, the time a suspended drain loop still waits), and Tick     *)
(* moves them together.  The deferred setup-to-bidding Timeout keeps its   *)
(* delay; when that delay has elapsed is left to the environment.          *)
(***************************************************************************)
EXTENDS Integers, Sequences, FiniteSets, TLC

\* ---------------------------------------------------------------- bounds
\* Money is counted in units: BasePrice is the base price of every player,
\* MaxAmount the highest amount offered and the budget a team starts with.
BasePrice == 1
MaxAmount == 3
\* POST /bid is taken while fewer than MaxQueue entries wait in the queue.
MaxQueue == 2
\* POST /next-player is taken while the log holds fewer rows than this: MaxLog
\* in Spec and SpecDrain, MaxLogPacing in SpecPacing.
MaxLog == 1
MaxLogPacing == 2
\* SpecSnake draws the draft order from the orders of 1 to MaxTeams teams, the
\* round from 1..MaxRound and the pick from 1..MaxPick.
MaxTeams == 6
MaxRound == 3
MaxPick == 12

\* ------------------------------------------------------ program constants
NULL == 0
BID_INTERVAL_MS == 3000
DefaultSetupPhaseDuration == 30000
BidExtensionMs == 10 * 1000
BiddingWindowMs == 30 * 1000
DefaultSeason == 1

\* ---------------------------------------------------------- the seed data
\* Two teams and six players; every player has the same base price and
\* every team starts with the budget that buys one player at the top amount.
\* Players 1 to 4 are available; players 5 and 6 are the core players the
\* seed puts on the rosters of teams 1 and 2.
Teams == {1, 2}
Players == {1, 2, 3, 4, 5, 6}
CorePlayers == {5, 6}
CoreTeamOf(p) == p - Cardinality(Players \ CorePlayers)
Amounts == 1..MaxAmount
Seasons == {DefaultSeason}

\* users: team t is owned by user t; then the admin, then a user without a
\* team, then the user of each player (players.user_id)
AdminUser == Cardinality(Teams) + 1
OutsiderUser == Cardinality(Teams) + 2
PlayerUser(p) == OutsiderUser + p
Users == Teams \cup {AdminUser, OutsiderUser} \cup {PlayerUser(p) : p \in Players}
UserRole(u) == IF u = AdminUser THEN "admin" ELSE IF u \in Teams THEN "owner" ELSE "player"
OwnerOf(t) == t

Min(a, b) == IF a < b THEN a ELSE b
Max(a, b) == IF a > b THEN a ELSE b

VARIABLES
  auction_state,      \* the singleton row of table auction_state
  teams,              \* table teams: id -> row
  players,            \* table players: id -> row
  team_roster,        \* table team_roster: set of rows
  auction_log,        \* table auction_log: rows in insertion order
  draft_log,          \* table draft_log: rows in insertion order
  bidQueue,           \* let bidQueue
  isProcessingBids,   \* let isProcessingBids
  timeSinceLastBid,   \* Date.now() - lastBidTime, saturating at BID_INTERVAL_MS
  setupPhaseDuration, \* let setupPhaseDuration
  autoBidSettings,    \* let autoBidSettings: the keys present -> settings
  currentPhase,       \* let currentPhase
  phaseTimer,         \* let phaseTimer: NULL or the id of a Timeout
  timers,             \* the live Timeouts armed by next-player: [id, delay]
  drainers,           \* suspended processBidQueue calls: remaining wait of each
  timeSinceApplied    \* history: time since the drain loop last applied a bid,
                      \* saturating at BID_INTERVAL_MS

vars == <<auction_state, teams, players, team_roster, auction_log, draft_log, bidQueue,
          isProcessingBids, timeSinceLastBid, setupPhaseDuration, autoBidSettings,
          currentPhase, phaseTimer, timers, drainers, timeSinceApplied>>

\* The whole state as one record, so that a handler is a function on states;
\* field response is the answer the handler sends, [op, status].
Cur ==
  [auction_state |-> auction_state, teams |-> teams, players |-> players,
   team_roster |-> team_roster, auction_log |-> auction_log, draft_log |-> draft_log,
   bidQueue |-> bidQueue,
   isProcessingBids |-> isProcessingBids, timeSinceLastBid |-> timeSinceLastBid,
   setupPhaseDuration |-> setupPhaseDuration, autoBidSettings |-> autoBidSettings,
   currentPhase |-> currentPhase, phaseTimer |-> phaseTimer, timers |-> timers,
   drainers |-> drainers, timeSinceApplied |-> timeSinceApplied,
   response |-> [op |-> "none", status |-> 0]]

Commit(S) ==
  /\ auction_state' = S.auction_state
  /\ teams' = S.teams
  /\ players' = S.players
  /\ team_roster' = S.team_roster
  /\ auction_log' = S.auction_log
  /\ draft_log' = S.draft_log
  /\ bidQueue' = S.bidQueue
  /\ isProcessingBids' = S.isProcessingBids
  /\ timeSinceLastBid' = S.timeSinceLastBid
  /\ setupPhaseDuration' = S.setupPhaseDuration
  /\ autoBidSettings' = S.autoBidSettings
  /\ currentPhase' = S.currentPhase
  /\ phaseTimer' = S.phaseTimer
  /\ timers' = S.timers
  /\ drainers' = S.drainers
  /\ timeSinceApplied' = S.timeSinceApplied

Respond(S, op, status) == [S EXCEPT !.response = [op |-> op, status |-> status]]

Entry(teamId, amount, increment, isAutoBid) ==
  [teamId |-> teamId, amount |-> amount, increment |-> increment, isAutoBid |-> isAutoBid]

LogRow(playerId, teamId, amount, increment, isAutoBid, season) ==
  [player_id |-> playerId, team_id |-> teamId, bid_amount |-> amount,
   bid_increment |-> increment, is_auto_bid |-> isAutoBid, is_winning_bid |-> FALSE,
   season |-> season]

\* -------------------------------------------------------------- executeBid
\* The three early returns of executeBid, in the order of the code.
\* Variants of the early returns with one return left out: the properties
\* below must tell each of them from executeBid.
ExecuteBidErrorNoBudget(S, bid) ==
  IF S.auction_state.mode # "auction" \/ S.auction_state.current_player_id = NULL
    THEN "Auction not active"
  ELSE IF bid.amount <= S.auction_state.current_bid
    THEN "Bid too low"
  ELSE "none"

ExecuteBidErrorNoFloor(S, bid) ==
  IF S.auction_state.mode # "auction" \/ S.auction_state.current_player_id = NULL
    THEN "Auction not active"
  ELSE IF bid.teamId \notin Teams \/ bid.amount > S.teams[bid.teamId].budget_remaining
    THEN "Invalid team or insufficient budget"
  ELSE "none"

ExecuteBidError(S, bid) ==
  IF S.auction_state.mode # "auction" \/ S.auction_state.current_player_id = NULL
    THEN "Auction not active"
  ELSE IF bid.amount <= S.auction_state.current_bid
    THEN "Bid too low"
  ELSE IF bid.teamId \notin Teams \/ bid.amount > S.teams[bid.teamId].budget_remaining
    THEN "Invalid team or insufficient budget"
  ELSE "none"

ExecuteBid(S, bid) ==
  IF ExecuteBidError(S, bid) # "none" THEN S
  ELSE [S EXCEPT
          !.auction_state = [@ EXCEPT !.current_bid = bid.amount,
                                      !.current_bidder_team_id = bid.teamId,
                                      !.timer_end = BidExtensionMs],
          !.auction_log = Append(@, LogRow(S.auction_state.current_player_id, bid.teamId,
                                           bid.amount, bid.increment, bid.isAutoBid,
                                           S.auction_state.season))]

\* ----------------------------------------------------------- checkAutoBids
\* The entries the loop over Object.entries(autoBidSettings) pushes, for the
\* teams from `from` on: integer-like keys are visited in ascending order.
RECURSIVE AutoBidEntries(_, _, _)
AutoBidEntries(S, excludeTeamId, from) ==
  IF from > Cardinality(Teams) THEN <<>>
  ELSE LET settings == S.autoBidSettings[from]
           nextBid == S.auction_state.current_bid + settings.increment
           rest == AutoBidEntries(S, excludeTeamId, from + 1)
       IN IF from \notin DOMAIN S.autoBidSettings \/ from = excludeTeamId THEN rest
          ELSE IF ~settings.active THEN rest
          ELSE IF nextBid <= settings.maxBid /\ nextBid <= S.teams[from].budget_remaining
            THEN <<Entry(from, nextBid, settings.increment, TRUE)>> \o rest
          ELSE rest

RECURSIVE ProcessBidQueue(_), DrainLoop(_), Drain(_), CheckAutoBids(_, _)

CheckAutoBids(S, excludeTeamId) ==
  IF S.auction_state.mode # "auction" \/ S.auction_state.current_player_id = NULL THEN S
  ELSE LET S1 == [S EXCEPT !.bidQueue = @ \o AutoBidEntries(S, excludeTeamId, 1)]
       IN IF Len(S1.bidQueue) > 0 /\ ~S1.isProcessingBids THEN ProcessBidQueue(S1) ELSE S1

\* --------------------------------------------------------- processBidQueue
\* Variant that takes the entry appended last (pop in place of shift).
DrainTakesLast(S) ==
  IF Len(S.bidQueue) = 0 THEN DrainLoop(S)
  ELSE LET bid == S.bidQueue[Len(S.bidQueue)]
           S1 == ExecuteBid([S EXCEPT !.bidQueue = SubSeq(@, 1, Len(@) - 1)], bid)
           applied == ExecuteBidError(S, bid) = "none"
           S2 == [S1 EXCEPT !.timeSinceLastBid = 0,
                            !.timeSinceApplied = IF applied THEN 0 ELSE @]
       IN DrainLoop(CheckAutoBids(S2, bid.teamId))

\* One pass of the body of the while loop after the pacing wait: shift the
\* head, execute it, stamp lastBidTime, run the evaluator, loop.
Drain(S) ==
  IF Len(S.bidQueue) = 0 THEN DrainLoop(S)
  ELSE LET bid == Head(S.bidQueue)
           S1 == ExecuteBid([S EXCEPT !.bidQueue = Tail(@)], bid)
           applied == ExecuteBidError(S, bid) = "none"
           S2 == [S1 EXCEPT !.timeSinceLastBid = 0,
                            !.timeSinceApplied = IF applied THEN 0 ELSE @]
       IN DrainLoop(CheckAutoBids(S2, bid.teamId))

\* The top of the while loop: leave when the queue is empty, suspend for the
\* rest of the pacing interval, or go on at once.
DrainLoop(S) ==
  IF Len(S.bidQueue) = 0 THEN [S EXCEPT !.isProcessingBids = FALSE]
  ELSE IF S.timeSinceLastBid < BID_INTERVAL_MS
    THEN [S EXCEPT !.drainers = Append(@, BID_INTERVAL_MS - S.timeSinceLastBid)]
  ELSE Drain(S)

\* Variant without the isProcessingBids guard.
ProcessBidQueueReentrant(S) ==
  IF Len(S.bidQueue) = 0 THEN S
  ELSE DrainLoop([S EXCEPT !.isProcessingBids = TRUE])

ProcessBidQueue(S) ==
  IF S.isProcessingBids \/ Len(S.bidQueue) = 0 THEN S
  ELSE DrainLoop([S EXCEPT !.isProcessingBids = TRUE])

\* ------------------------------------------------------- phase controller
\* autoBidSettings = {}: no key
NoSettings == [t \in {} |-> NULL]

\* delete autoBidSettings[team_id]
DeleteKey(settings, team_id) == [t \in DOMAIN settings \ {team_id} |-> settings[t]]

\* autoBidSettings[team_id] = value
SetKey(settings, team_id, value) ==
  [t \in DOMAIN settings \cup {team_id} |-> IF t = team_id THEN value ELSE settings[t]]

\* The handle setTimeout returns: a Timeout is told from the live ones only,
\* so it is named by the least id no live Timeout has.
NewTimerId(S) ==
  CHOOSE id \in 1..(Cardinality(S.timers) + 1) :
    /\ \A tm \in S.timers : tm.id # id
    /\ \A lower \in 1..(id - 1) : \E tm \in S.timers : tm.id = lower

\* Variant that forgets the handle without clearTimeout.
ClearPhaseTimerForgets(S) ==
  IF S.phaseTimer = NULL THEN S
  ELSE [S EXCEPT !.phaseTimer = NULL]

\* if (phaseTimer) { clearTimeout(phaseTimer); phaseTimer = null; }
ClearPhaseTimer(S) ==
  IF S.phaseTimer = NULL THEN S
  ELSE [S EXCEPT !.timers = {tm \in @ : tm.id # S.phaseTimer}, !.phaseTimer = NULL]

\* The teams whose settings pass the filter of triggerInitialAutoBids.
InitialCandidates(S) ==
  {t \in Teams : /\ t \in DOMAIN S.autoBidSettings
                 /\ S.autoBidSettings[t].active
                 /\ S.autoBidSettings[t].maxBid >= S.auction_state.current_bid}

\* sortedAutoBids[0]: the highest maxBid; the sort is stable, so among equal
\* maxBids the first key of Object.entries, the lowest team id.
InitialBidder(S) ==
  CHOOSE t \in InitialCandidates(S) :
    \A o \in InitialCandidates(S) :
      \/ S.autoBidSettings[o].maxBid < S.autoBidSettings[t].maxBid
      \/ (S.autoBidSettings[o].maxBid = S.autoBidSettings[t].maxBid /\ t <= o)

TriggerInitialAutoBids(S) ==
  IF InitialCandidates(S) = {} THEN S
  ELSE LET teamId == InitialBidder(S)
       IN IF S.auction_state.current_bid <= S.teams[teamId].budget_remaining
            THEN ProcessBidQueue([S EXCEPT !.bidQueue =
                    Append(@, Entry(teamId, S.auction_state.current_bid, 0, TRUE))])
            ELSE S

\* Variant that runs the initial seed twice.
StartBiddingPhaseSeedsTwice(S) ==
  LET S1 == [S EXCEPT !.currentPhase = "bidding",
                      !.auction_state = [@ EXCEPT !.timer_end = BiddingWindowMs]]
  IN IF S1.auction_state.current_player_id # NULL
       THEN TriggerInitialAutoBids(TriggerInitialAutoBids(S1)) ELSE S1

StartBiddingPhase(S) ==
  LET S1 == [S EXCEPT !.currentPhase = "bidding",
                      !.auction_state = [@ EXCEPT !.timer_end = BiddingWindowMs]]
  IN IF S1.auction_state.current_player_id # NULL THEN TriggerInitialAutoBids(S1) ELSE S1

\* Variant that leaves current_bid as it is.
ClearedBlockKeepsBid(row) ==
  [row EXCEPT !.current_player_id = NULL, !.current_bidder_team_id = NULL,
              !.timer_end = NULL]

\* SET current_player_id = NULL, current_bid = 0, current_bidder_team_id = NULL,
\* timer_end = NULL
ClearedBlock(row) ==
  [row EXCEPT !.current_player_id = NULL, !.current_bid = 0,
              !.current_bidder_team_id = NULL, !.timer_end = NULL]

\* Variant in which the owner keeps authority beside the delegate.
HasBiddingAuthorityOwnerToo(team, teamId, userId, userRole) ==
  IF userRole = "admin" THEN TRUE
  ELSE team.bidding_authority_user_id = userId \/ OwnerOf(teamId) = userId

\* Helper to check if user has bidding authority for a team
HasBiddingAuthority(team, teamId, userId, userRole) ==
  IF userRole = "admin" THEN TRUE
  ELSE IF team.bidding_authority_user_id # NULL
    THEN team.bidding_authority_user_id = userId
  ELSE OwnerOf(teamId) = userId

\* ---------------------------------------------------------------- handlers
\* POST /auction/start
StartHandler(S, season) ==
  Respond([S EXCEPT !.bidQueue = <<>>,
                    !.autoBidSettings = NoSettings,
                    !.timeSinceLastBid = BID_INTERVAL_MS,
                    !.auction_state = [ClearedBlock(@) EXCEPT !.mode = "auction",
                                                              !.season = season]],
          "start", 200)

\* POST /auction/next-player
\* Variant that leaves the queued entries in place when the player changes.
NextPlayerHandlerKeepsQueue(S, player_id) ==
  IF player_id = NULL THEN Respond(S, "next-player", 400)
  ELSE IF player_id \notin Players \/ ~S.players[player_id].is_available
    THEN Respond(S, "next-player", 404)
  ELSE LET S1 == ClearPhaseTimer([S EXCEPT !.autoBidSettings = NoSettings])
           id == NewTimerId(S1)
       IN Respond([S1 EXCEPT
                     !.currentPhase = "setup",
                     !.auction_state = [@ EXCEPT
                        !.current_player_id = player_id,
                        !.current_bid = S.players[player_id].base_price,
                        !.current_bidder_team_id = NULL,
                        !.timer_end = S.setupPhaseDuration],
                     !.phaseTimer = id,
                     !.timers = @ \cup {[id |-> id, delay |-> S.setupPhaseDuration]}],
                  "next-player", 200)

NextPlayerHandler(S, player_id) ==
  IF player_id = NULL THEN Respond(S, "next-player", 400)
  ELSE IF player_id \notin Players \/ ~S.players[player_id].is_available
    THEN Respond(S, "next-player", 404)
  ELSE LET S1 == ClearPhaseTimer([S EXCEPT !.bidQueue = <<>>,
                                           !.autoBidSettings = NoSettings])
           id == NewTimerId(S1)
       IN Respond([S1 EXCEPT
                     !.currentPhase = "setup",
                     !.auction_state = [@ EXCEPT
                        !.current_player_id = player_id,
                        !.current_bid = S.players[player_id].base_price,
                        !.current_bidder_team_id = NULL,
                        !.timer_end = S.setupPhaseDuration],
                     !.phaseTimer = id,
                     !.timers = @ \cup {[id |-> id, delay |-> S.setupPhaseDuration]}],
                  "next-player", 200)

\* Variant without the phase check.
BiddingClosedNever(S) == FALSE

\* if (currentPhase === 'setup'): bidding has not started yet
BiddingClosed(S) == S.currentPhase = "setup"

\* POST /auction/bid
BidHandler(S, userId, team_id, amount) ==
  IF team_id = NULL \/ amount = 0 THEN Respond(S, "bid", 400)
  ELSE IF S.auction_state.mode # "auction" THEN Respond(S, "bid", 400)
  ELSE IF S.auction_state.current_player_id = NULL THEN Respond(S, "bid", 400)
  ELSE IF BiddingClosed(S) THEN Respond(S, "bid", 400)
  ELSE IF team_id \notin Teams THEN Respond(S, "bid", 404)
  ELSE IF ~HasBiddingAuthority(S.teams[team_id], team_id, userId, UserRole(userId))
    THEN Respond(S, "bid", 403)
  ELSE IF amount <= S.auction_state.current_bid THEN Respond(S, "bid", 400)
  ELSE IF amount > S.teams[team_id].budget_remaining THEN Respond(S, "bid", 400)
  ELSE Respond(ProcessBidQueue([S EXCEPT !.bidQueue =
                  Append(@, Entry(team_id, amount, amount - S.auction_state.current_bid,
                                  FALSE))]),
               "bid", 200)

\* POST /auction/auto-bid
AutoBidHandler(S, userId, team_id, max_bid, increment, active) ==
  IF team_id = NULL THEN Respond(S, "auto-bid", 400)
  ELSE IF team_id \notin Teams THEN Respond(S, "auto-bid", 404)
  ELSE IF ~HasBiddingAuthority(S.teams[team_id], team_id, userId, UserRole(userId))
    THEN Respond(S, "auto-bid", 403)
  ELSE IF ~active
    THEN Respond([S EXCEPT !.autoBidSettings = DeleteKey(@, team_id)], "auto-bid", 200)
  ELSE IF max_bid = 0 \/ increment = 0 THEN Respond(S, "auto-bid", 400)
  ELSE IF max_bid > S.teams[team_id].budget_remaining THEN Respond(S, "auto-bid", 400)
  ELSE Respond([S EXCEPT !.autoBidSettings = SetKey(@, team_id,
                  [maxBid |-> max_bid, increment |-> increment, active |-> TRUE])],
               "auto-bid", 200)

\* Variant without the validation.
SoldInvalidNever(state) == FALSE

\* if (!state.current_player_id || !state.current_bidder_team_id): 400
SoldInvalid(state) ==
  state.current_player_id = NULL \/ state.current_bidder_team_id = NULL

\* POST /auction/sold
SoldHandler(S) ==
  LET S1 == ClearPhaseTimer([S EXCEPT !.bidQueue = <<>>, !.currentPhase = "idle"])
      state == S1.auction_state
      row == [team_id |-> state.current_bidder_team_id,
              player_id |-> state.current_player_id,
              acquisition_type |-> "auction", price |-> state.current_bid,
              season |-> state.season]
  IN IF SoldInvalid(state) THEN Respond(S1, "sold", 400)
     \* UNIQUE(team_id, player_id, season): the INSERT throws, the catch answers 500
     ELSE IF \E r \in S1.team_roster : /\ r.team_id = row.team_id
                                       /\ r.player_id = row.player_id
                                       /\ r.season = row.season
       THEN Respond(S1, "sold", 500)
     ELSE Respond([S1 EXCEPT
            !.team_roster = @ \cup {row},
            !.teams[state.current_bidder_team_id].budget_remaining = @ - state.current_bid,
            !.players[state.current_player_id].is_available = FALSE,
            !.auction_log = [i \in 1..Len(@) |->
               IF /\ @[i].player_id = state.current_player_id
                  /\ @[i].team_id = state.current_bidder_team_id
                  /\ @[i].bid_amount = state.current_bid
                  /\ @[i].season = state.season
                 THEN [@[i] EXCEPT !.is_winning_bid = TRUE] ELSE @[i]],
            !.auction_state = ClearedBlock(@),
            !.autoBidSettings = NoSettings],
          "sold", 200)

\* Variant that keeps the auto-bid settings.
UnsoldHandlerKeepsSettings(S) ==
  LET S1 == ClearPhaseTimer([S EXCEPT !.bidQueue = <<>>, !.currentPhase = "idle"])
  IN IF S1.auction_state.current_player_id = NULL THEN Respond(S1, "unsold", 400)
     ELSE Respond([S1 EXCEPT !.auction_state = ClearedBlock(@)], "unsold", 200)

\* POST /auction/unsold
UnsoldHandler(S) ==
  LET S1 == ClearPhaseTimer([S EXCEPT !.bidQueue = <<>>, !.currentPhase = "idle"])
  IN IF S1.auction_state.current_player_id = NULL THEN Respond(S1, "unsold", 400)
     ELSE Respond([S1 EXCEPT !.auction_state = ClearedBlock(@),
                             !.autoBidSettings = NoSettings],
                  "unsold", 200)

\* POST /auction/end
EndHandler(S) ==
  Respond([S EXCEPT !.bidQueue = <<>>,
                    !.autoBidSettings = NoSettings,
                    !.auction_state = [ClearedBlock(@) EXCEPT !.mode = "idle"]],
          "end", 200)

\* Variant without the budget check.
ManualBidHandlerNoBudget(S, team_id, amount) ==
  IF team_id = NULL \/ amount = 0 THEN Respond(S, "manual-bid", 400)
  ELSE IF S.auction_state.current_player_id = NULL THEN Respond(S, "manual-bid", 400)
  ELSE IF team_id \notin Teams THEN Respond(S, "manual-bid", 404)
  ELSE IF amount <= S.auction_state.current_bid THEN Respond(S, "manual-bid", 400)
  ELSE Respond([S EXCEPT
          !.auction_state = [@ EXCEPT !.current_bid = amount,
                                      !.current_bidder_team_id = team_id,
                                      !.timer_end = BidExtensionMs],
          !.auction_log = Append(@, LogRow(S.auction_state.current_player_id, team_id,
                                           amount, amount - S.auction_state.current_bid,
                                           FALSE, S.auction_state.season))],
        "manual-bid", 200)

\* POST /auction/manual-bid
ManualBidHandler(S, team_id, amount) ==
  IF team_id = NULL \/ amount = 0 THEN Respond(S, "manual-bid", 400)
  ELSE IF S.auction_state.current_player_id = NULL THEN Respond(S, "manual-bid", 400)
  ELSE IF team_id \notin Teams THEN Respond(S, "manual-bid", 404)
  ELSE IF amount <= S.auction_state.current_bid THEN Respond(S, "manual-bid", 400)
  ELSE IF amount > S.teams[team_id].budget_remaining THEN Respond(S, "manual-bid", 400)
  ELSE Respond([S EXCEPT
          !.auction_state = [@ EXCEPT !.current_bid = amount,
                                      !.current_bidder_team_id = team_id,
                                      !.timer_end = BidExtensionMs],
          !.auction_log = Append(@, LogRow(S.auction_state.current_player_id, team_id,
                                           amount, amount - S.auction_state.current_bid,
                                           FALSE, S.auction_state.season))],
        "manual-bid", 200)

\* POST /auction/skip-to-bidding
SkipToBiddingHandler(S) ==
  IF S.currentPhase # "setup" THEN Respond(S, "skip-to-bidding", 400)
  ELSE Respond(StartBiddingPhase(ClearPhaseTimer(S)), "skip-to-bidding", 200)

\* POST /auction/extend-timer
ExtendTimerHandler(S, seconds) ==
  IF S.auction_state.current_player_id = NULL THEN Respond(S, "extend-timer", 400)
  ELSE Respond([S EXCEPT !.auction_state = [@ EXCEPT !.timer_end = seconds * 1000]],
               "extend-timer", 200)

\* Variant that leaves the Timeout armed.
PauseHandlerKeepsTimer(S) ==
  Respond([S EXCEPT !.currentPhase = "paused"], "pause", 200)

\* POST /auction/pause
PauseHandler(S) ==
  Respond([ClearPhaseTimer(S) EXCEPT !.currentPhase = "paused"], "pause", 200)

\* POST /auction/set-setup-duration
SetSetupDurationHandler(S, seconds) ==
  IF seconds < 5 \/ seconds > 120 THEN Respond(S, "set-setup-duration", 400)
  ELSE Respond([S EXCEPT !.setupPhaseDuration = seconds * 1000], "set-setup-duration", 200)

\* Variant that opens the bidding phase anew, seeding the queue.
ResumeHandlerRestartsBidding(S, phase) ==
  Respond(StartBiddingPhase([S EXCEPT !.currentPhase = phase]), "resume", 200)

\* POST /auction/resume
ResumeHandler(S, phase) ==
  Respond([S EXCEPT !.currentPhase = phase,
                    !.auction_state = [@ EXCEPT !.timer_end = BiddingWindowMs]],
          "resume", 200)

\* POST /draft/start: team_order absent, so the order is that of the teams
\* by name, taken here to be the order of their ids
DraftStartHandler(S, season) ==
  Respond([S EXCEPT !.auction_state = [ClearedBlock(@) EXCEPT
                       !.mode = "draft", !.draft_round = 1, !.draft_pick = 1,
                       !.draft_order = [i \in 1..Cardinality(Teams) |-> i],
                       !.season = season]],
          "draft-start", 200)

\* POST /draft/end
DraftEndHandler(S) ==
  Respond([S EXCEPT !.auction_state = [@ EXCEPT
                       !.mode = "idle", !.current_player_id = NULL, !.draft_round = 1,
                       !.draft_pick = 1, !.timer_end = NULL]],
          "draft-end", 200)

\* POST /draft/start with team_order: an empty team_order is replaced by the
\* order of the teams by name, taken here to be the order of their ids
DraftStartWithOrderHandler(S, season, team_order) ==
  LET orderToUse == IF Len(team_order) = 0 THEN [i \in 1..Cardinality(Teams) |-> i]
                    ELSE team_order
  IN Respond([S EXCEPT !.auction_state = [ClearedBlock(@) EXCEPT
                          !.mode = "draft", !.draft_round = 1, !.draft_pick = 1,
                          !.draft_order = orderToUse, !.season = season]],
             "draft-start", 200)

\* GET /draft/status: teamIndex, the 0-based index into draftOrder
StatusTeamIndex(state) ==
  LET totalTeams == Len(state.draft_order)
      pickIndex == (state.draft_pick - 1) % totalTeams
      isReverseRound == state.draft_round % 2 = 0
  IN IF isReverseRound THEN totalTeams - 1 - pickIndex ELSE pickIndex

\* GET /draft/status: currentTeamId
StatusCurrentTeamId(state) == state.draft_order[StatusTeamIndex(state) + 1]

\* Variant that never reverses the order.
PickTeamIndexForward(state) == (state.draft_pick - 1) % Len(state.draft_order)

\* POST /draft/pick: teamIndex, the 0-based index into draftOrder
PickTeamIndex(state) ==
  LET totalTeams == Len(state.draft_order)
      pickIndex == (state.draft_pick - 1) % totalTeams
      isReverseRound == state.draft_round % 2 = 0
  IN IF isReverseRound THEN totalTeams - 1 - pickIndex ELSE pickIndex

\* POST /draft/pick: currentTeamId
PickCurrentTeamId(state) == state.draft_order[PickTeamIndex(state) + 1]

\* Variant that moves to the next round one pick early.
NextRoundEarly(state, nextPick) ==
  IF nextPick % Len(state.draft_order) = 0 /\ nextPick > state.draft_pick
    THEN state.draft_round + 1
  ELSE state.draft_round

\* POST /draft/pick: nextRound
NextRound(state, nextPick) ==
  IF (nextPick - 1) % Len(state.draft_order) = 0 /\ nextPick > state.draft_pick
    THEN state.draft_round + 1
  ELSE state.draft_round

\* Variant that lets every user pick.
PickPermittedAnyUser(team, teamId, userId, userRole) == TRUE

\* isAdmin || isTeamOwnerOrCaptain
PickPermitted(team, teamId, userId, userRole) ==
  \/ userRole = "admin"
  \/ OwnerOf(teamId) = userId
  \/ team.captain_id = userId

\* POST /draft/pick
DraftPickHandler(S, userId, player_id) ==
  LET state == S.auction_state
  IN IF player_id = NULL THEN Respond(S, "pick", 400)
     ELSE IF state.mode # "draft" THEN Respond(S, "pick", 400)
     \* no team on the clock or no such team: reading team.owner_id throws, the
     \* catch answers 500
     ELSE IF Len(state.draft_order) = 0 \/ PickCurrentTeamId(state) \notin Teams
       THEN Respond(S, "pick", 500)
     ELSE LET currentTeamId == PickCurrentTeamId(state)
              nextPick == state.draft_pick + 1
              nextRound == NextRound(state, nextPick)
          IN IF ~PickPermitted(S.teams[currentTeamId], currentTeamId, userId,
                               UserRole(userId))
               THEN Respond(S, "pick", 403)
             ELSE IF player_id \notin Players \/ ~S.players[player_id].is_available
               THEN Respond(S, "pick", 404)
             ELSE IF \E tr \in S.team_roster :
                        tr.player_id = player_id /\ tr.season = state.season
               THEN Respond(S, "pick", 400)
             ELSE Respond([S EXCEPT
                    !.team_roster = @ \cup {[team_id |-> currentTeamId,
                                             player_id |-> player_id,
                                             acquisition_type |-> "draft", price |-> 0,
                                             season |-> state.season]},
                    !.players[player_id].is_available = FALSE,
                    !.draft_log = Append(@, [round_number |-> state.draft_round,
                                             pick_number |-> state.draft_pick,
                                             team_id |-> currentTeamId,
                                             player_id |-> player_id,
                                             season |-> state.season]),
                    !.auction_state = [@ EXCEPT !.draft_round = nextRound,
                                                !.draft_pick = nextPick,
                                                !.timer_end = NULL]],
                  "pick", 200)

\* POST /draft/set-timer
DraftSetTimerHandler(S, seconds) ==
  Respond([S EXCEPT !.auction_state = [@ EXCEPT !.timer_end = seconds * 1000]],
          "set-timer", 200)

\* PUT /teams/:id with budget_remaining, by an admin
UpdateTeamHandler(S, id, budget_remaining) ==
  Respond([S EXCEPT !.teams[id].budget_remaining = budget_remaining], "update-team", 200)

\* PUT /teams/:id with captain_id, by the owner of the team or an admin
SetCaptainHandler(S, userId, id, captain_id) ==
  IF id \notin Teams THEN Respond(S, "set-captain", 404)
  ELSE IF UserRole(userId) # "admin" /\ OwnerOf(id) # userId
    THEN Respond(S, "set-captain", 403)
  ELSE Respond([S EXCEPT !.teams[id].captain_id = captain_id], "set-captain", 200)

\* Variant that accepts any user as delegate.
IsTeamMemberAnyUser(S, team_id, user_id) == TRUE

\* isCaptain || isCorePlayer: the user is the captain of the team or the
\* user of a player on its roster with acquisition type core
IsTeamMember(S, team_id, user_id) ==
  \/ S.teams[team_id].captain_id = user_id
  \/ \E tr \in S.team_roster : /\ tr.team_id = team_id
                                /\ PlayerUser(tr.player_id) = user_id
                                /\ tr.acquisition_type = "core"

\* POST /auction/authority
DelegateAuthorityHandler(S, userId, team_id, delegate_to_user_id) ==
  IF team_id = NULL THEN Respond(S, "authority", 400)
  ELSE IF team_id \notin Teams THEN Respond(S, "authority", 404)
  ELSE IF UserRole(userId) # "admin" /\ OwnerOf(team_id) # userId
    THEN Respond(S, "authority", 403)
  ELSE IF delegate_to_user_id # NULL
    THEN IF delegate_to_user_id \notin Users THEN Respond(S, "authority", 404)
         ELSE IF ~IsTeamMember(S, team_id, delegate_to_user_id)
           THEN Respond(S, "authority", 400)
         ELSE Respond([S EXCEPT !.teams[team_id].bidding_authority_user_id =
                                   delegate_to_user_id],
                      "authority", 200)
  ELSE Respond([S EXCEPT !.teams[team_id].bidding_authority_user_id = NULL],
               "authority", 200)

\* Variant that leaves the delegate in place.
RevokeAuthorityHandlerKeeps(S, userId, team_id) ==
  IF team_id \notin Teams THEN Respond(S, "revoke-authority", 404)
  ELSE IF UserRole(userId) # "admin" /\ OwnerOf(team_id) # userId
    THEN Respond(S, "revoke-authority", 403)
  ELSE Respond(S, "revoke-authority", 200)

\* DELETE /auction/authority/:team_id
RevokeAuthorityHandler(S, userId, team_id) ==
  IF team_id \notin Teams THEN Respond(S, "revoke-authority", 404)
  ELSE IF UserRole(userId) # "admin" /\ OwnerOf(team_id) # userId
    THEN Respond(S, "revoke-authority", 403)
  ELSE Respond([S EXCEPT !.teams[team_id].bidding_authority_user_id = NULL],
               "revoke-authority", 200)

\* ----------------------------------------------------------------- actions
\* One action per request, with the sets its inputs are drawn from.
Start == \E season \in Seasons : Commit(StartHandler(Cur, season))

NextPlayer(Ids, Rows) ==
  /\ Len(auction_log) < Rows
  /\ \E player_id \in Ids : Commit(NextPlayerHandler(Cur, player_id))

Bid(Callers, Offers) ==
  /\ Len(bidQueue) < MaxQueue
  /\ \E userId \in Callers, team_id \in Teams, amount \in Offers :
       Commit(BidHandler(Cur, userId, team_id, amount))

AutoBid(Callers, Ceilings, Increments) ==
  \E userId \in Callers, team_id \in Teams, max_bid \in Ceilings,
     increment \in Increments, active \in BOOLEAN :
       Commit(AutoBidHandler(Cur, userId, team_id, max_bid, increment, active))

Sold == Commit(SoldHandler(Cur))

Unsold == Commit(UnsoldHandler(Cur))

End == Commit(EndHandler(Cur))

ManualBid(Offers) ==
  \E team_id \in Teams, amount \in Offers : Commit(ManualBidHandler(Cur, team_id, amount))

SkipToBidding == Commit(SkipToBiddingHandler(Cur))

ExtendTimer(Secs) == \E seconds \in Secs : Commit(ExtendTimerHandler(Cur, seconds))

Pause == Commit(PauseHandler(Cur))

SetSetupDuration(Secs) ==
  \E seconds \in Secs : Commit(SetSetupDurationHandler(Cur, seconds))

Resume(ToPhases) == \E phase \in ToPhases : Commit(ResumeHandler(Cur, phase))

DraftStart == \E season \in Seasons : Commit(DraftStartHandler(Cur, season))

DraftEnd == Commit(DraftEndHandler(Cur))

DraftStartWithOrder(Orders) ==
  \E season \in Seasons, team_order \in Orders :
    Commit(DraftStartWithOrderHandler(Cur, season, team_order))

DraftPick(Callers, Ids) ==
  \E userId \in Callers, player_id \in Ids : Commit(DraftPickHandler(Cur, userId, player_id))

DraftSetTimer(Secs) == \E seconds \in Secs : Commit(DraftSetTimerHandler(Cur, seconds))

UpdateTeam(Budgets) ==
  \E id \in Teams, budget_remaining \in Budgets :
    Commit(UpdateTeamHandler(Cur, id, budget_remaining))

SetCaptain(Callers, Captains) ==
  \E userId \in Callers, id \in Teams, captain_id \in Captains :
    Commit(SetCaptainHandler(Cur, userId, id, captain_id))

DelegateAuthority(Callers, Delegates) ==
  \E userId \in Callers, team_id \in Teams, delegate_to_user_id \in Delegates :
    Commit(DelegateAuthorityHandler(Cur, userId, team_id, delegate_to_user_id))

RevokeAuthority(Callers) ==
  \E userId \in Callers, team_id \in Teams :
    Commit(RevokeAuthorityHandler(Cur, userId, team_id))

\* The callback of setTimeout(() => startBiddingPhase(io), setupPhaseDuration):
\* the delay of a live Timeout has elapsed.
PhaseTimerFires ==
  \E tm \in timers : Commit(StartBiddingPhase([Cur EXCEPT !.timers = @ \ {tm}]))

RemoveAt(seq, i) == SubSeq(seq, 1, i - 1) \o SubSeq(seq, i + 1, Len(seq))

\* A suspended processBidQueue resumes after its pacing wait.
DrainerWakes ==
  \E i \in 1..Len(drainers) :
    /\ drainers[i] = 0
    /\ Commit(Drain([Cur EXCEPT !.drainers = RemoveAt(@, i)]))

\* Time passes: d milliseconds on every pacing clock.
Tick(Steps) ==
  \E d \in Steps :
    /\ timeSinceLastBid' = Min(BID_INTERVAL_MS, timeSinceLastBid + d)
    /\ drainers' = [i \in 1..Len(drainers) |-> Max(0, drainers[i] - d)]
    /\ timeSinceApplied' = Min(BID_INTERVAL_MS, timeSinceApplied + d)
    /\ UNCHANGED <<auction_state, teams, players, team_roster, auction_log, draft_log, bidQueue,
                   isProcessingBids, setupPhaseDuration, autoBidSettings, currentPhase,
                   phaseTimer, timers>>

\* The state after construction: database.js and the seed, and the module
\* variables of auction.js.
Init ==
  /\ auction_state = [mode |-> "idle", current_player_id |-> NULL, current_bid |-> 0,
                      current_bidder_team_id |-> NULL, timer_end |-> NULL,
                      draft_round |-> 1, draft_pick |-> 1, draft_order |-> <<>>,
                      season |-> DefaultSeason]
  /\ teams = [t \in Teams |-> [budget_remaining |-> MaxAmount, captain_id |-> NULL,
                               bidding_authority_user_id |-> NULL]]
  /\ players = [p \in Players |-> [base_price |-> BasePrice,
                                   is_available |-> p \notin CorePlayers]]
  /\ team_roster = {[team_id |-> CoreTeamOf(p), player_id |-> p,
                     acquisition_type |-> "core", price |-> BasePrice,
                     season |-> DefaultSeason] : p \in CorePlayers}
  /\ auction_log = <<>>
  /\ draft_log = <<>>
  /\ bidQueue = <<>>
  /\ isProcessingBids = FALSE
  /\ timeSinceLastBid = BID_INTERVAL_MS
  /\ setupPhaseDuration = DefaultSetupPhaseDuration
  /\ autoBidSettings = NoSettings
  /\ currentPhase = "idle"
  /\ phaseTimer = NULL
  /\ timers = {}
  /\ drainers = <<>>
  /\ timeSinceApplied = BID_INTERVAL_MS

\* ---------------------------------------------------------- specifications
\* Spec: the bid queue, the drain loop, the auto-bid evaluator and the phase
\* controller around one player, with whole pacing intervals of time.
Owners == Teams
WholeInterval == {BID_INTERVAL_MS}

Next ==
  \/ Start
  \/ NextPlayer({1}, MaxLog)
  \/ SkipToBidding
  \/ PhaseTimerFires
  \/ Bid(Owners, Amounts)
  \/ AutoBid(Owners, {MaxAmount - 1, MaxAmount}, {1})
  \/ ManualBid(Amounts)
  \/ Sold
  \/ Unsold
  \/ End
  \/ DrainerWakes
  \/ Tick(WholeInterval)

Spec == Init /\ [][Next]_vars

\* SpecDrain: the drain loop with the requests that change, while an entry
\* waits in the queue, what executeBid validates it against: the budget
\* (PUT /teams/:id), the mode and the player on the block (POST /draft/start,
\* POST /auction/end, POST /auction/start).
NextDrain ==
  \/ Start
  \/ NextPlayer({1}, MaxLog)
  \/ SkipToBidding
  \/ PhaseTimerFires
  \/ Bid(Owners, Amounts)
  \/ AutoBid(Owners, {MaxAmount}, {1})
  \/ UpdateTeam({BasePrice})
  \/ DraftStart
  \/ DraftEnd
  \/ End
  \/ DrainerWakes
  \/ Tick(WholeInterval)

SpecDrain == Init /\ [][NextDrain]_vars

\* SpecPacing: the pacing of the drain loop in half intervals of time, over
\* two stays on the block, with one team bidding by hand and the other by
\* instruction.
HalfInterval == {BID_INTERVAL_MS \div 2}

NextPacing ==
  \/ Start
  \/ NextPlayer({1}, MaxLogPacing)
  \/ SkipToBidding
  \/ PhaseTimerFires
  \/ Pause
  \/ Resume({"bidding"})
  \/ Bid({1}, Amounts)
  \/ AutoBid({2}, {MaxAmount}, {1})
  \/ Sold
  \/ Unsold
  \/ End
  \/ DrainerWakes
  \/ Tick(HalfInterval)

SpecPacing == Init /\ [][NextPacing]_vars

\* SpecSetup: the deferred setup-to-bidding timer when nothing cancels it. The
\* requests that re-arm the timer or reset the session (next-player, start,
\* end) are taken only outside the setup phase, and skip-to-bidding, pause,
\* sold and unsold are not taken; instructions, admin manual bids, a change of
\* the setup duration and resume may arrive during setup. The Timeout of Node
\* fires once its delay has elapsed: weak fairness on the firing.
InSetup == currentPhase = "setup"

StartOutsideSetup == ~InSetup /\ Start
NextPlayerOutsideSetup == ~InSetup /\ NextPlayer({1}, MaxLog)
EndOutsideSetup == ~InSetup /\ End

NextSetup ==
  \/ StartOutsideSetup
  \/ NextPlayerOutsideSetup
  \/ EndOutsideSetup
  \/ PhaseTimerFires
  \/ AutoBid(Owners, {MaxAmount - 1, MaxAmount}, {1})
  \/ ManualBid({MaxAmount - 1})
  \/ SetSetupDuration({5})
  \/ Resume({"bidding"})
  \/ DrainerWakes
  \/ Tick(WholeInterval)

\* A live Timeout leaves the set of live Timeouts and none is armed: of the
\* steps of NextSetup only PhaseTimerFires does that, so fairness on this
\* action is fairness on PhaseTimerFires, stated on the variable the callback
\* always changes.
PhaseTimerElapses == \E tm \in timers : timers' = timers \ {tm}

SpecSetup == Init /\ [][NextSetup]_vars /\ WF_timers(PhaseTimerElapses)

\* SpecCascade: the cascade of synthetic bids under the instructions POST
\* /auto-bid accepts: max_bid and increment are only required to be truthy,
\* so a negative increment is stored as it is. Node resumes a suspended
\* processBidQueue once its pacing wait has elapsed, and time passes: weak
\* fairness on both.
CascadeIncrements == {-1, 1}

\* A drain loop whose wait is over leaves the suspended ones, and suspends
\* again for a whole interval or ends: of the steps of NextCascade only
\* DrainerWakes does that, so fairness on this action is fairness on
\* DrainerWakes, stated on the variable the resumption always changes.
DrainerResumes ==
  \E i \in 1..Len(drainers) :
    /\ drainers[i] = 0
    /\ \/ drainers' = RemoveAt(drainers, i)
       \/ drainers' = Append(RemoveAt(drainers, i), BID_INTERVAL_MS)

NextCascade ==
  \/ Start
  \/ NextPlayer({1}, MaxLog)
  \/ SkipToBidding
  \/ PhaseTimerFires
  \/ Bid(Owners, Amounts)
  \/ AutoBid(Owners, {MaxAmount}, CascadeIncrements)
  \/ DrainerWakes
  \/ Tick(WholeInterval)

SpecCascade ==
  /\ Init
  /\ [][NextCascade]_vars
  /\ WF_vars(Tick(WholeInterval))
  /\ WF_drainers(DrainerResumes)

\* SpecResume: pause and resume around one player on the block, with resume
\* naming the phase to return to: POST /resume takes phase from the body.
ResumeTo == {"setup", "bidding"}

NextResume ==
  \/ Start
  \/ NextPlayer({1}, MaxLog)
  \/ SkipToBidding
  \/ PhaseTimerFires
  \/ Pause
  \/ Resume(ResumeTo)
  \/ Bid(Owners, Amounts)
  \/ Sold
  \/ Unsold
  \/ End
  \/ DrainerWakes
  \/ Tick(WholeInterval)

SpecResume == Init /\ [][NextResume]_vars

\* SpecBudget: two players sold one after the other, with team 1 bidding by
\* hand, team 2 by instruction and the admin bidding for both, and no edit of
\* teams or rosters from outside the auction.
NextBudget ==
  \/ Start
  \/ NextPlayer({1, 2}, MaxLogPacing)
  \/ SkipToBidding
  \/ Bid({1}, Amounts)
  \/ AutoBid({2}, {MaxAmount}, {1})
  \/ ManualBid(Amounts)
  \/ Sold
  \/ Unsold
  \/ DrainerWakes
  \/ Tick(WholeInterval)

SpecBudget == Init /\ [][NextBudget]_vars

\* SpecMixed: the auction and the draft over the same players: the routes of
\* the auction that do not look at the mode (next-player, manual-bid, sold,
\* unsold) are taken in the draft mode too.
NextMixed ==
  \/ Start
  \/ End
  \/ DraftStart
  \/ DraftEnd
  \/ NextPlayer({1}, MaxLogPacing)
  \/ SkipToBidding
  \/ Bid(Owners, {MaxAmount})
  \/ ManualBid({MaxAmount - 1})
  \/ Sold
  \/ Unsold
  \/ DraftPick({AdminUser}, {1, 2})
  \/ DrainerWakes
  \/ Tick(WholeInterval)

SpecMixed == Init /\ [][NextMixed]_vars

\* SpecAuthority: delegation and revocation of bidding authority around one
\* player on the block, within one pacing interval of time, with users of
\* every kind submitting bids and instructions.
\* The requests come from the owners, the admin, a user without a team and
\* the user of the core player of team 1; a captain is unset, the owner of
\* team 1 or the user without a team; a delegate is none of the users, the
\* owner of team 1, the user without a team, the user of an available
\* player or the user of the core player of team 1.
AuthorityCallers == Teams \cup {AdminUser, OutsiderUser, PlayerUser(5)}
Captains == {NULL, 1, OutsiderUser}
Delegates == {NULL, 1, OutsiderUser, PlayerUser(1), PlayerUser(5)}

NextAuthority ==
  \/ Start
  \/ NextPlayer({1}, MaxLog)
  \/ SkipToBidding
  \/ SetCaptain(AuthorityCallers, Captains)
  \/ DelegateAuthority(AuthorityCallers, Delegates)
  \/ RevokeAuthority(AuthorityCallers)
  \/ Bid(AuthorityCallers, {MaxAmount})
  \/ AutoBid(AuthorityCallers, {MaxAmount}, {1})

SpecAuthority == Init /\ [][NextAuthority]_vars

\* SpecDraft: the draft, from POST /draft/start with and without a
\* team_order, through the picks of the four available players, to
\* POST /draft/end, with a captain appointed to a team on the way.
TeamOrders == {<<>>, <<1>>, <<2, 1>>}
DraftCallers == Teams \cup {AdminUser, OutsiderUser}

NextDraft ==
  \/ DraftStartWithOrder(TeamOrders)
  \/ DraftPick(DraftCallers, Players)
  \/ DraftSetTimer({120})
  \/ DraftEnd
  \/ SetCaptain({AdminUser}, {OutsiderUser})

SpecDraft == Init /\ [][NextDraft]_vars

\* SpecSnake: the snake index as a function of its inputs.  The draft is on
\* with an order of 1 to MaxTeams teams, as POST /draft/start takes it from
\* team_order, at any round and any pick; a pick is made from there.
SnakeOrders == {[i \in 1..n |-> i] : n \in 1..MaxTeams}

InitSnake ==
  /\ \E draft_order \in SnakeOrders, draft_round \in 1..MaxRound, draft_pick \in 1..MaxPick :
       auction_state = [mode |-> "draft", current_player_id |-> NULL, current_bid |-> 0,
                        current_bidder_team_id |-> NULL, timer_end |-> NULL,
                        draft_round |-> draft_round, draft_pick |-> draft_pick,
                        draft_order |-> draft_order, season |-> DefaultSeason]
  /\ teams = [t \in Teams |-> [budget_remaining |-> MaxAmount, captain_id |-> NULL,
                               bidding_authority_user_id |-> NULL]]
  /\ players = [p \in Players |-> [base_price |-> BasePrice,
                                   is_available |-> p \notin CorePlayers]]
  /\ team_roster = {[team_id |-> CoreTeamOf(p), player_id |-> p,
                     acquisition_type |-> "core", price |-> BasePrice,
                     season |-> DefaultSeason] : p \in CorePlayers}
  /\ auction_log = <<>>
  /\ draft_log = <<>>
  /\ bidQueue = <<>>
  /\ isProcessingBids = FALSE
  /\ timeSinceLastBid = BID_INTERVAL_MS
  /\ setupPhaseDuration = DefaultSetupPhaseDuration
  /\ autoBidSettings = NoSettings
  /\ currentPhase = "idle"
  /\ phaseTimer = NULL
  /\ timers = {}
  /\ drainers = <<>>
  /\ timeSinceApplied = BID_INTERVAL_MS

NextSnake == DraftPick({AdminUser}, {1, 2})

SpecSnake == InitSnake /\ [][NextSnake]_vars

\* ------------------------------------------------------------- properties
LastRow(log) == log[Len(log)]

\* The step puts a player on the block anew or clears the block: no bidder,
\* and the bid is the player's base price in a fresh setup phase, or 0.
BlockReset ==
  /\ auction_state'.current_bidder_team_id = NULL
  /\ \/ /\ auction_state'.current_player_id = NULL
        /\ auction_state'.current_bid = 0
     \/ /\ auction_state'.current_player_id # NULL
        /\ currentPhase' = "setup"
        /\ auction_state'.current_bid =
             players[auction_state'.current_player_id].base_price

\* C1: every step that applies a bid (from the drain loop or from an admin
\* manual bid) appends exactly one log row for the player on the block, with an
\* amount strictly above the current bid, and makes that amount the current
\* bid; any other step leaves the current bid alone unless it puts a player on
\* the block or clears the block.  So the applied amounts increase strictly
\* while one player stays on the block.
C1_AppliedBidsIncrease ==
  [][IF Len(auction_log') > Len(auction_log)
       THEN /\ Len(auction_log') = Len(auction_log) + 1
            /\ SubSeq(auction_log', 1, Len(auction_log)) = auction_log
            /\ auction_state.current_player_id # NULL
            /\ auction_state'.current_player_id = auction_state.current_player_id
            /\ LastRow(auction_log').player_id = auction_state.current_player_id
            /\ LastRow(auction_log').bid_amount > auction_state.current_bid
            /\ auction_state'.current_bid = LastRow(auction_log').bid_amount
            /\ auction_state'.current_bidder_team_id = LastRow(auction_log').team_id
       ELSE auction_state'.current_bid = auction_state.current_bid \/ BlockReset]_vars

\* Two bids have been applied for the player on the block, an automatic one
\* and one a person placed, and the current bid is the later, higher one.
C1_Witness ==
  /\ Len(auction_log) = 2
  /\ auction_state.current_player_id # NULL
  /\ auction_log[1].bid_amount < auction_log[2].bid_amount
  /\ auction_log[1].is_auto_bid # auction_log[2].is_auto_bid
  /\ auction_state.current_bid = auction_log[2].bid_amount

\* The step is one in which the drain loop applies a bid: it stamps
\* lastBidTime and appends a log row.
DrainApplies ==
  /\ Len(auction_log') > Len(auction_log)
  /\ timeSinceLastBid # 0
  /\ timeSinceLastBid' = 0

\* C2: whenever the drain loop applies a bid, at least the pacing interval
\* has passed since it last applied one.
C2_PacedBids ==
  [][DrainApplies => timeSinceApplied >= BID_INTERVAL_MS]_vars

\* C3: at most one call of processBidQueue is suspended in its loop, the flag
\* isProcessingBids is set exactly while one is, and a further call made in
\* such a state returns without touching anything.
C3_SingleDrainLoop ==
  /\ Len(drainers) <= 1
  /\ isProcessingBids <=> Len(drainers) = 1
  /\ isProcessingBids => ProcessBidQueue(Cur) = Cur

\* A drain loop is suspended for the pacing interval while the queue holds an
\* entry a person submitted and an entry the auto-bid evaluator pushed.
C3_Witness ==
  /\ Len(drainers) = 1
  /\ drainers[1] > 0
  /\ \E i, j \in 1..Len(bidQueue) : bidQueue[i].isAutoBid /\ ~bidQueue[j].isAutoBid

\* C4: whenever an entry is at the head of the queue, executeBid on it
\* applies it (the current bid becomes its amount, its team the bidder, one
\* log row is appended) exactly if the mode is auction, a player is on the
\* block, the amount is above the current bid and the team's budget is at
\* least the amount; otherwise it leaves the auction_state row (current bid,
\* bidder, timer_end) and the log as they are.
C4_DrainAppliesIff ==
  Len(bidQueue) > 0
    => LET bid == Head(bidQueue)
           R == ExecuteBid([Cur EXCEPT !.bidQueue = Tail(@)], bid)
           ok == /\ auction_state.mode = "auction"
                 /\ auction_state.current_player_id # NULL
                 /\ bid.amount > auction_state.current_bid
                 /\ teams[bid.teamId].budget_remaining >= bid.amount
       IN IF ok
            THEN /\ R.auction_state.current_bid = bid.amount
                 /\ R.auction_state.current_bidder_team_id = bid.teamId
                 /\ Len(R.auction_log) = Len(auction_log) + 1
                 /\ LastRow(R.auction_log).bid_amount = bid.amount
                 /\ LastRow(R.auction_log).team_id = bid.teamId
            ELSE R.auction_state = auction_state /\ R.auction_log = auction_log

\* The pacing wait of the drain loop is over and the entry it is about to
\* drain is above the current bid of an active auction, but its team's budget
\* has dropped below the amount since it was queued.
C4_Witness ==
  /\ drainers = <<0>>
  /\ Len(bidQueue) > 0
  /\ auction_state.mode = "auction"
  /\ auction_state.current_player_id # NULL
  /\ Head(bidQueue).amount > auction_state.current_bid
  /\ teams[Head(bidQueue).teamId].budget_remaining < Head(bidQueue).amount

\* C5: every automatic bid the drain loop applies is, in the state it is
\* applied in, at most the ceiling of the instruction its team has then (if
\* it still has one) and at most the remaining budget of its team.
C5_AutoBidWithinCeiling ==
  [][(Len(auction_log') > Len(auction_log) /\ LastRow(auction_log').is_auto_bid)
       => LET row == LastRow(auction_log')
          IN /\ row.team_id \in DOMAIN autoBidSettings
                  => row.bid_amount <= autoBidSettings[row.team_id].maxBid
             /\ row.bid_amount <= teams[row.team_id].budget_remaining]_vars

\* C6: a step that takes the phase from setup to bidding in an active auction,
\* with a player on the block, no drain loop in progress, no pacing wait due
\* and an enabled instruction whose ceiling and whose team's budget cover the
\* current bid, makes the selected team the bidder and keeps the current bid.
C6_OpeningBidApplied ==
  [][(/\ currentPhase = "setup"
      /\ currentPhase' = "bidding"
      /\ auction_state.mode = "auction"
      /\ auction_state.current_player_id # NULL
      /\ auction_state.current_bidder_team_id = NULL
      /\ ~isProcessingBids
      /\ timeSinceLastBid = BID_INTERVAL_MS
      /\ InitialCandidates(Cur) # {}
      /\ auction_state.current_bid <= teams[InitialBidder(Cur)].budget_remaining)
       => /\ auction_state'.current_bidder_team_id = InitialBidder(Cur)
          /\ auction_state'.current_bid = auction_state.current_bid]_vars

\* C7: in the setup phase POST /bid answers every bid with an error and
\* leaves the state as it is; in the bidding phase of an active auction a bid
\* from a user with authority for the team, above the current bid and within
\* the budget, is answered 200 and its entry is in the queue or, drained at
\* once, is the current bid.
C7_SetupRejectsBid ==
  \A userId \in Users, team_id \in Teams, amount \in Amounts :
    LET R == BidHandler(Cur, userId, team_id, amount)
        e == Entry(team_id, amount, amount - auction_state.current_bid, FALSE)
    IN /\ currentPhase = "setup"
            => R.response.status >= 400 /\ [R EXCEPT !.response = Cur.response] = Cur
       /\ (/\ currentPhase = "bidding"
           /\ auction_state.mode = "auction"
           /\ auction_state.current_player_id # NULL
           /\ HasBiddingAuthority(teams[team_id], team_id, userId, UserRole(userId))
           /\ amount > auction_state.current_bid
           /\ amount <= teams[team_id].budget_remaining)
            => /\ R.response.status = 200
               /\ \/ \E i \in 1..Len(R.bidQueue) : R.bidQueue[i] = e
                  \/ /\ R.auction_state.current_bid = amount
                     /\ R.auction_state.current_bidder_team_id = team_id

\* The phase has advanced from setup to bidding, and a bid a person
\* submitted since is waiting in the queue.
C7_Witness ==
  /\ currentPhase = "bidding"
  /\ auction_state.mode = "auction"
  /\ auction_state.current_player_id # NULL
  /\ \E i \in 1..Len(bidQueue) : ~bidQueue[i].isAutoBid

\* C8: POST /sold in a state with a player on the block and a bidder T at
\* current bid b debits exactly b from T and from no other team, marks the
\* player unavailable, adds the one roster row (T, player, season, b), leaves
\* the queue and the auto-bid settings empty and the phase idle, and clears
\* the player, the bidder and timer_end with the current bid back at 0.
C8_SoldCommits ==
  LET R == SoldHandler(Cur)
      T == auction_state.current_bidder_team_id
      b == auction_state.current_bid
      p == auction_state.current_player_id
      row == [team_id |-> T, player_id |-> p, acquisition_type |-> "auction",
              price |-> b, season |-> auction_state.season]
  IN (p # NULL /\ T # NULL)
       => /\ R.response.status = 200
          /\ R.teams[T].budget_remaining = teams[T].budget_remaining - b
          /\ \A o \in Teams \ {T} : R.teams[o] = teams[o]
          /\ ~R.players[p].is_available
          /\ row \notin team_roster
          /\ R.team_roster = team_roster \cup {row}
          /\ R.bidQueue = <<>>
          /\ R.autoBidSettings = NoSettings
          /\ R.currentPhase = "idle"
          /\ R.auction_state.current_player_id = NULL
          /\ R.auction_state.current_bidder_team_id = NULL
          /\ R.auction_state.timer_end = NULL
          /\ R.auction_state.current_bid = 0

\* A player has been sold above the base price: the roster row is there, the
\* buyer's budget is the seed budget less the price, the block is clear.
C8_Witness ==
  \E r \in team_roster :
    /\ r.price > BasePrice
    /\ teams[r.team_id].budget_remaining = MaxAmount - r.price
    /\ ~players[r.player_id].is_available
    /\ auction_state.current_player_id = NULL
    /\ currentPhase = "idle"

\* C9: with no player on the block, as after a successful POST /sold and
\* until the next POST /next-player, POST /sold answers 400 and changes no
\* budget, no roster row, no player and no log row; and no player has more
\* than one roster row.
C9_SecondSoldRejected ==
  /\ auction_state.current_player_id = NULL
       => LET R == SoldHandler(Cur)
          IN /\ R.response.status = 400
             /\ R.teams = teams
             /\ R.team_roster = team_roster
             /\ R.players = players
             /\ R.auction_log = auction_log
  /\ \A p \in Players : Cardinality({r \in team_roster : r.player_id = p}) <= 1

\* A player has been sold and its winning log row flagged, and no player has
\* been put on the block since.
C9_Witness ==
  /\ team_roster # {}
  /\ auction_state.current_player_id = NULL
  /\ \E i \in 1..Len(auction_log) : auction_log[i].is_winning_bid

\* C10: each of skip-to-bidding (when it is accepted), pause, sold, unsold,
\* start and end leaves no live Timeout behind.
C10_NoTimerOutstanding ==
  /\ SkipToBiddingHandler(Cur).response.status = 200
       => SkipToBiddingHandler(Cur).timers = {}
  /\ PauseHandler(Cur).timers = {}
  /\ SoldHandler(Cur).timers = {}
  /\ UnsoldHandler(Cur).timers = {}
  /\ \A season \in Seasons : StartHandler(Cur, season).timers = {}
  /\ EndHandler(Cur).timers = {}

\* C11: POST /start and POST /end leave the phase idle, whatever phase the
\* engine was in.
C11_StartEndResetPhase ==
  /\ \A season \in Seasons : StartHandler(Cur, season).currentPhase = "idle"
  /\ EndHandler(Cur).currentPhase = "idle"

\* C12: POST /pause leaves the phase paused with no live Timeout; while the
\* phase is paused no Timeout is live, and a step that takes the phase out of
\* paused is one of POST /resume, POST /next-player, POST /sold and
\* POST /unsold.
C12_PausedUntilAdminAction ==
  /\ [](/\ PauseHandler(Cur).currentPhase = "paused"
        /\ PauseHandler(Cur).timers = {}
        /\ PauseHandler(Cur).phaseTimer = NULL
        /\ currentPhase = "paused" => timers = {})
  /\ [][(currentPhase = "paused" /\ currentPhase' # "paused")
          => \/ \E phase \in {"idle", "setup", "bidding"} :
                  Commit(ResumeHandler(Cur, phase))
             \/ \E player_id \in Players : Commit(NextPlayerHandler(Cur, player_id))
             \/ Commit(SoldHandler(Cur))
             \/ Commit(UnsoldHandler(Cur))]_vars

\* The auction was paused in the setup phase of a player, while the
\* setup-to-bidding Timeout was pending: timer_end is still the one
\* next-player wrote, and no Timeout is live.
C12_Witness ==
  /\ currentPhase = "paused"
  /\ auction_state.current_player_id # NULL
  /\ auction_state.timer_end = setupPhaseDuration
  /\ auction_state.current_bidder_team_id = NULL
  /\ timers = {}

\* The values of `phase` a POST /resume carries.
ResumePhases == {"idle", "setup", "bidding", "paused"}

\* C13: POST /resume, for every phase it is asked to resume to, answers 200,
\* sets timer_end to now + 30 s and the phase to the one asked for, appends no
\* log row, leaves current_bid, current_bidder_team_id and the queue as they
\* are, and changes nothing else.
C13_ResumeFrame ==
  \A phase \in ResumePhases :
    LET R == ResumeHandler(Cur, phase)
    IN /\ R.response.status = 200
       /\ R.auction_state.timer_end = BiddingWindowMs
       /\ R.currentPhase = phase
       /\ R.auction_log = auction_log
       /\ R.auction_state.current_bid = auction_state.current_bid
       /\ R.auction_state.current_bidder_team_id = auction_state.current_bidder_team_id
       /\ R.bidQueue = bidQueue
       /\ [R EXCEPT !.response = Cur.response, !.currentPhase = currentPhase,
                    !.auction_state = auction_state] = Cur

\* The auction has been resumed after a bid was applied: the phase is
\* bidding with the Timeout handle cleared by the pause, a bidder holds the
\* player on the block, and timer_end is the 30 s POST /resume wrote (the
\* applied bid had set it to 10 s).
C13_Witness ==
  /\ currentPhase = "bidding"
  /\ phaseTimer = NULL
  /\ timers = {}
  /\ auction_state.current_player_id # NULL
  /\ auction_state.current_bidder_team_id # NULL
  /\ Len(auction_log) > 0
  /\ auction_state.timer_end = BiddingWindowMs
  /\ autoBidSettings # NoSettings

\* C14: for every team and user, an admin has bidding authority; any other
\* user has it exactly when it is the delegate, if the team has one, and
\* exactly when it is the owner, if the team has none.  POST /bid and
\* POST /auto-bid from a user without authority answer an error and leave
\* the state, the queue and the auto-bid settings with it, as it is.
C14_AuthorityResolves ==
  \A userId \in Users, team_id \in Teams :
    LET team == teams[team_id]
        has == HasBiddingAuthority(team, team_id, userId, UserRole(userId))
    IN /\ UserRole(userId) = "admin" => has
       /\ (UserRole(userId) # "admin" /\ team.bidding_authority_user_id # NULL)
            => (has <=> userId = team.bidding_authority_user_id)
       /\ (UserRole(userId) # "admin" /\ team.bidding_authority_user_id = NULL)
            => (has <=> userId = OwnerOf(team_id))
       /\ ~has =>
            /\ \A amount \in Amounts :
                 LET R == BidHandler(Cur, userId, team_id, amount)
                 IN /\ R.response.status >= 400
                    /\ R.bidQueue = bidQueue
                    /\ R.autoBidSettings = autoBidSettings
                    /\ [R EXCEPT !.response = Cur.response] = Cur
            /\ \A max_bid \in Amounts, increment \in {1}, active \in BOOLEAN :
                 LET R == AutoBidHandler(Cur, userId, team_id, max_bid, increment, active)
                 IN /\ R.response.status = 403
                    /\ R.bidQueue = bidQueue
                    /\ R.autoBidSettings = autoBidSettings
                    /\ [R EXCEPT !.response = Cur.response] = Cur

\* A team has a delegate who is not its owner, bidding is open, and the
\* owner's bid is turned away at the authority check while the delegate's is
\* taken.
C14_Witness ==
  \E team_id \in Teams :
    /\ teams[team_id].bidding_authority_user_id \notin {NULL, OwnerOf(team_id)}
    /\ BidHandler(Cur, OwnerOf(team_id), team_id, MaxAmount).response.status = 403
    /\ BidHandler(Cur, teams[team_id].bidding_authority_user_id, team_id,
                  MaxAmount).response.status = 200
    /\ team_id \in DOMAIN autoBidSettings

\* The user is the captain of the team, or the user of a player on the
\* roster of the team with acquisition type core.
CaptainOrCore(team_id, user_id) ==
  \/ teams[team_id].captain_id = user_id
  \/ \E p \in Players :
       /\ PlayerUser(p) = user_id
       /\ \E r \in team_roster :
            r.team_id = team_id /\ r.player_id = p /\ r.acquisition_type = "core"

\* C15: POST /authority naming a user who is neither the captain of the team
\* nor a core member of its roster answers an error and leaves the state, the
\* team's delegate with it, as it is; when it answers 200 for a user, that user
\* is the captain or a core member and becomes the delegate; and every step
\* that gives a team a new delegate gives it one who is, before the step, its
\* captain or a core member of its roster.
C15_DelegateIsCaptainOrCore ==
  /\ [](\A userId \in Users, team_id \in Teams, delegate_to_user_id \in Users :
          LET R == DelegateAuthorityHandler(Cur, userId, team_id, delegate_to_user_id)
          IN /\ ~CaptainOrCore(team_id, delegate_to_user_id)
                  => /\ R.response.status >= 400
                     /\ R.teams = teams
                     /\ [R EXCEPT !.response = Cur.response] = Cur
             /\ R.response.status = 200
                  => /\ CaptainOrCore(team_id, delegate_to_user_id)
                     /\ R.teams[team_id].bidding_authority_user_id = delegate_to_user_id)
  /\ [][\A team_id \in Teams :
          teams'[team_id].bidding_authority_user_id
              \notin {NULL, teams[team_id].bidding_authority_user_id}
            => CaptainOrCore(team_id, teams'[team_id].bidding_authority_user_id)]_vars

\* A team has a delegate who is not its captain, appointed as a core member
\* of its roster, while its owner's request to appoint a user without a team
\* is answered 400.
C15_Witness ==
  \E team_id \in Teams :
    /\ teams[team_id].bidding_authority_user_id # NULL
    /\ teams[team_id].bidding_authority_user_id # teams[team_id].captain_id
    /\ CaptainOrCore(team_id, teams[team_id].bidding_authority_user_id)
    /\ DelegateAuthorityHandler(Cur, OwnerOf(team_id), team_id,
                                OutsiderUser).response.status = 400

\* The users other than admins that hasBiddingAuthority grants the team to.
AuthorityHolders(S, team_id) ==
  {u \in Users : /\ UserRole(u) # "admin"
                 /\ HasBiddingAuthority(S.teams[team_id], team_id, u, UserRole(u))}

\* C16: when POST /authority answers 200 for a user, that user and, admins
\* aside, no other (the owner neither, unless the owner is that user) has
\* authority for the team afterwards; a revocation after it, by the owner or an
\* admin, through DELETE /authority/:team_id or POST /authority with no user,
\* answers 200 and leaves the owner and, admins aside, no other with authority,
\* and when the team had no delegate before, the state it had before; and a step
\* that changes or removes the delegate of a team is a POST /authority or a
\* DELETE /authority/:team_id for that team by its owner or an admin.
C16_DelegateThenRevoke ==
  /\ [](\A team_id \in Teams : \A userId \in {OwnerOf(team_id), AdminUser},
                                  delegate_to_user_id \in Users :
          LET D == DelegateAuthorityHandler(Cur, userId, team_id, delegate_to_user_id)
          IN D.response.status = 200
               => /\ AuthorityHolders(D, team_id) = {delegate_to_user_id}
                  /\ \A revoker \in {OwnerOf(team_id), AdminUser} :
                       LET R1 == RevokeAuthorityHandler(D, revoker, team_id)
                           R2 == DelegateAuthorityHandler(D, revoker, team_id, NULL)
                       IN /\ R1.response.status = 200
                          /\ R2.response.status = 200
                          /\ AuthorityHolders(R1, team_id) = {OwnerOf(team_id)}
                          /\ AuthorityHolders(R2, team_id) = {OwnerOf(team_id)}
                          /\ teams[team_id].bidding_authority_user_id = NULL
                               => /\ [R1 EXCEPT !.response = Cur.response] = Cur
                                  /\ [R2 EXCEPT !.response = Cur.response] = Cur)
  /\ [][\A team_id \in Teams :
          (/\ teams[team_id].bidding_authority_user_id # NULL
           /\ teams'[team_id].bidding_authority_user_id
                # teams[team_id].bidding_authority_user_id)
            => \E userId \in {OwnerOf(team_id), AdminUser} :
                 \/ Commit(RevokeAuthorityHandler(Cur, userId, team_id))
                 \/ \E delegate_to_user_id \in Users \cup {NULL} :
                      Commit(DelegateAuthorityHandler(Cur, userId, team_id,
                                                      delegate_to_user_id))]_vars

\* A team has its captain, who is not its owner, as delegate: the captain
\* holds the authority, and the owner's DELETE /authority/:team_id returns it.
C16_Witness ==
  \E team_id \in Teams :
    /\ teams[team_id].bidding_authority_user_id # NULL
    /\ teams[team_id].bidding_authority_user_id = teams[team_id].captain_id
    /\ teams[team_id].captain_id # OwnerOf(team_id)
    /\ AuthorityHolders(Cur, team_id) = {teams[team_id].captain_id}
    /\ AuthorityHolders(RevokeAuthorityHandler(Cur, OwnerOf(team_id), team_id), team_id)
         = {OwnerOf(team_id)}

\* C17: with a draft order of N >= 1 teams, GET /draft/status and
\* POST /draft/pick both put on the clock the team at 0-based index
\* (draft_pick - 1) mod N of the order when draft_round is odd and at index
\* N - 1 - ((draft_pick - 1) mod N) when it is even; with N = 6 that is index
\* 0 at round 1 pick 1, 5 at round 1 pick 6, 5 at round 2 pick 7 and 0 at round
\* 2 pick 12; and a pick that is accepted is logged for that team.
C17_SnakeOrder ==
  LET state == auction_state
      N == Len(state.draft_order)
      pickIndex == (state.draft_pick - 1) % N
      index == IF state.draft_round % 2 = 1 THEN pickIndex ELSE N - 1 - pickIndex
  IN N >= 1 =>
       /\ StatusTeamIndex(state) = index
       /\ PickTeamIndex(state) = index
       /\ StatusCurrentTeamId(state) = state.draft_order[index + 1]
       /\ PickCurrentTeamId(state) = StatusCurrentTeamId(state)
       /\ (N = 6 /\ state.draft_round = 1 /\ state.draft_pick = 1)
            => PickTeamIndex(state) = 0
       /\ (N = 6 /\ state.draft_round = 1 /\ state.draft_pick = 6)
            => PickTeamIndex(state) = 5
       /\ (N = 6 /\ state.draft_round = 2 /\ state.draft_pick = 7)
            => PickTeamIndex(state) = 5
       /\ (N = 6 /\ state.draft_round = 2 /\ state.draft_pick = 12)
            => PickTeamIndex(state) = 0
       /\ \A userId \in Users, player_id \in Players :
            LET R == DraftPickHandler(Cur, userId, player_id)
            IN R.response.status = 200
                 => LastRow(R.draft_log).team_id = state.draft_order[index + 1]

\* A pick has been made in an even round of a draft of two or more teams:
\* the row logged for it names the team at the reversed index, which is not
\* the team at the forward index.
C17_Witness ==
  /\ Len(draft_log) > 0
  /\ LET row == LastRow(draft_log)
         N == Len(auction_state.draft_order)
         pickIndex == (row.pick_number - 1) % N
     IN /\ N >= 2
        /\ row.round_number % 2 = 0
        /\ row.team_id = auction_state.draft_order[N - 1 - pickIndex + 1]
        /\ row.team_id # auction_state.draft_order[pickIndex + 1]

\* The rows the picks of the draft in progress have logged, in pick order:
\* draft_pick - 1 picks have been made since POST /draft/start.
PicksSinceStart ==
  SubSeq(draft_log, Len(draft_log) - (auction_state.draft_pick - 1) + 1, Len(draft_log))

\* C18: with a draft order of N >= 1 teams, draft_round is
\* floor((draft_pick - 1) / N) + 1; the picks made since POST /draft/start
\* are logged with pick numbers 1, 2, 3, ... and with the round that formula
\* gives; in each round every team of the order has been on the clock at most
\* once, and exactly once when the round is complete; and every accepted pick
\* adds one to draft_pick, and one to draft_round exactly when it is the N-th
\* pick of its round.
C18_RoundFollowsPick ==
  /\ [](LET state == auction_state
            N == Len(state.draft_order)
            made == state.draft_pick - 1
            log == PicksSinceStart
            InRound(r) == {i \in 1..made : log[i].round_number = r}
        IN N >= 1 =>
             /\ state.draft_round = ((state.draft_pick - 1) \div N) + 1
             /\ Len(draft_log) >= made
             /\ \A i \in 1..made :
                  /\ log[i].pick_number = i
                  /\ log[i].round_number = ((i - 1) \div N) + 1
             /\ \A r \in 1..state.draft_round, j \in 1..N :
                  LET times == Cardinality({i \in InRound(r) :
                                              log[i].team_id = state.draft_order[j]})
                  IN IF r < state.draft_round THEN times = 1 ELSE times <= 1)
  /\ [][Len(draft_log') > Len(draft_log)
          => /\ auction_state.mode = "draft"
             /\ draft_log' = Append(draft_log, LastRow(draft_log'))
             /\ auction_state'.draft_pick = auction_state.draft_pick + 1
             /\ auction_state'.draft_round =
                  IF auction_state.draft_pick % Len(auction_state.draft_order) = 0
                    THEN auction_state.draft_round + 1
                  ELSE auction_state.draft_round]_vars

\* Two rounds of a draft of two teams are complete: four picks are logged,
\* the first team of the order picked first and last, the second team picked
\* second and third, and the fifth pick opens round 3.
C18_Witness ==
  /\ auction_state.mode = "draft"
  /\ Len(auction_state.draft_order) = 2
  /\ auction_state.draft_pick = 5
  /\ auction_state.draft_round = 3
  /\ Len(draft_log) >= 4
  /\ PicksSinceStart[1].team_id = auction_state.draft_order[1]
  /\ PicksSinceStart[2].team_id = auction_state.draft_order[2]
  /\ PicksSinceStart[3].team_id = auction_state.draft_order[2]
  /\ PicksSinceStart[4].team_id = auction_state.draft_order[1]

\* C19: POST /draft/pick answers 200 only in a draft, to an admin or to the
\* owner or the captain of the team on the clock, for a player who is
\* available and has no roster row for the season, and it answers 200 to every
\* such request; then the state differs in this: the roster has the row of
\* the team on the clock for the player (type draft, price 0), the player is
\* unavailable, the log has one row more, for this round, pick, team and player,
\* draft_pick is one more and timer_end is unset.  Any other answer leaves the
\* state as it is.
C19_PickAcceptedOnlyOnTurn ==
  \A userId \in Users, player_id \in Players \cup {NULL} :
    LET R == DraftPickHandler(Cur, userId, player_id)
        state == auction_state
        T == StatusCurrentTeamId(state)
        valid == /\ state.mode = "draft"
                 /\ Len(state.draft_order) >= 1
                 /\ T \in Teams
                 /\ \/ UserRole(userId) = "admin"
                    \/ userId = OwnerOf(T)
                    \/ userId = teams[T].captain_id
                 /\ player_id \in Players
                 /\ players[player_id].is_available
                 /\ ~\E r \in team_roster :
                       r.player_id = player_id /\ r.season = state.season
    IN /\ R.response.status = 200 <=> valid
       /\ R.response.status # 200
            => /\ R.response.status >= 400
               /\ [R EXCEPT !.response = Cur.response] = Cur
       /\ R.response.status = 200
            => /\ R.team_roster = team_roster \cup
                    {[team_id |-> T, player_id |-> player_id, acquisition_type |-> "draft",
                      price |-> 0, season |-> state.season]}
               /\ R.players = [players EXCEPT ![player_id].is_available = FALSE]
               /\ R.draft_log = Append(draft_log,
                    [round_number |-> state.draft_round, pick_number |-> state.draft_pick,
                     team_id |-> T, player_id |-> player_id, season |-> state.season])
               /\ R.auction_state.draft_pick = state.draft_pick + 1
               /\ R.auction_state.draft_round >= state.draft_round
               /\ R.auction_state.timer_end = NULL
               /\ [R EXCEPT !.response = Cur.response, !.team_roster = team_roster,
                            !.players = players, !.draft_log = draft_log,
                            !.auction_state = auction_state] = Cur

\* A pick has been made and is on the roster of the team that made it; now
\* the team on the clock has a captain, whose pick of an available player
\* would be taken, as would its owner's, while that of the owner of another
\* team is answered 403 and an admin's pick of a core player 404.
C19_Witness ==
  /\ auction_state.mode = "draft"
  /\ Len(draft_log) > 0
  /\ \E r \in team_roster :
       /\ r.acquisition_type = "draft"
       /\ r.player_id = LastRow(draft_log).player_id
       /\ r.team_id = LastRow(draft_log).team_id
  /\ LET T == StatusCurrentTeamId(auction_state)
     IN /\ teams[T].captain_id = OutsiderUser
        /\ \E p \in Players :
             /\ DraftPickHandler(Cur, OutsiderUser, p).response.status = 200
             /\ DraftPickHandler(Cur, OwnerOf(T), p).response.status = 200
             /\ \E o \in Teams \ {T} :
                  DraftPickHandler(Cur, OwnerOf(o), p).response.status = 403
        /\ \E p \in CorePlayers : DraftPickHandler(Cur, AdminUser, p).response.status = 404

\* C20: POST /sold and POST /unsold, when they are accepted, POST /start and
\* POST /end leave no player on the block and timer_end unset; and while no
\* player is on the block, timer_end is unset.
C20_TimerEndClearedWithBlock ==
  /\ \A R \in {SoldHandler(Cur), UnsoldHandler(Cur)} :
       R.response.status = 200
         => R.auction_state.current_player_id = NULL /\ R.auction_state.timer_end = NULL
  /\ \A R \in {StartHandler(Cur, season) : season \in Seasons} \cup {EndHandler(Cur)} :
       R.auction_state.current_player_id = NULL /\ R.auction_state.timer_end = NULL
  /\ auction_state.current_player_id = NULL => auction_state.timer_end = NULL

QueueAndSettingsEmpty(S) == S.bidQueue = <<>> /\ S.autoBidSettings = NoSettings

\* C22: POST /next-player, POST /sold and POST /unsold, when they are
\* accepted, POST /start and POST /end leave the queue and the auto-bid
\* settings empty; and every step that puts a player on the block, or
\* another player in its place, leaves them empty.
C22_ClearedWithBlock ==
  /\ [](/\ \A player_id \in Players :
             LET R == NextPlayerHandler(Cur, player_id)
             IN R.response.status = 200 => QueueAndSettingsEmpty(R)
        /\ SoldHandler(Cur).response.status = 200 => QueueAndSettingsEmpty(SoldHandler(Cur))
        /\ UnsoldHandler(Cur).response.status = 200
             => QueueAndSettingsEmpty(UnsoldHandler(Cur))
        /\ \A season \in Seasons : QueueAndSettingsEmpty(StartHandler(Cur, season))
        /\ QueueAndSettingsEmpty(EndHandler(Cur)))
  /\ [][(/\ auction_state'.current_player_id # NULL
         /\ auction_state'.current_player_id # auction_state.current_player_id)
          => bidQueue' = <<>> /\ autoBidSettings' = NoSettings]_vars

\* A player is on the block with an entry waiting in the queue and an
\* instruction standing, and POST /unsold would be accepted.
C22_Witness ==
  /\ auction_state.current_player_id # NULL
  /\ bidQueue # <<>>
  /\ autoBidSettings # NoSettings
  /\ UnsoldHandler(Cur).response.status = 200
  /\ SoldHandler(Cur).response.status = 200

\* C23: when a suspended drain loop wakes and the entry at the head of the
\* queue is one executeBid discards, the pass takes that entry off the queue
\* and appends no synthetic entry.
C23_DiscardedEntryEnqueuesNothing ==
  \A i \in 1..Len(drainers) :
    (/\ drainers[i] = 0
     /\ Len(bidQueue) > 0
     /\ ExecuteBidError(Cur, Head(bidQueue)) # "none")
      => Drain([Cur EXCEPT !.drainers = RemoveAt(@, i)]).bidQueue = Tail(bidQueue)

\* C24: after an admin manual bid is applied in an auction, every other team
\* whose enabled instruction still affords current bid + increment gets a
\* synthetic entry: the queue grows, or the entry has already been applied.
C24_ManualBidRunsEvaluator ==
  \A team_id \in Teams :
    \A amount \in Amounts :
      LET R == ManualBidHandler(Cur, team_id, amount)
      IN (/\ R.response.status = 200
          /\ R.auction_state.mode = "auction"
          /\ AutoBidEntries(R, team_id, 1) # <<>>)
           => \/ Len(R.bidQueue) > Len(bidQueue)
              \/ Len(R.auction_log) > Len(auction_log) + 1

\* The state the program is in when the Timeout tm fires.
TimerFired(tm) == StartBiddingPhase([Cur EXCEPT !.timers = @ \ {tm}])

\* C25: a player put on the block in the setup phase eventually reaches the
\* bidding phase when nothing cancels the timer; and when the timer fires in
\* the setup phase, the phase becomes bidding, timer_end is a fresh 30-second
\* window, the initial seed has run once on that state, and no Timeout is left
\* to run it again.
C25_SetupLeadsToBidding ==
  /\ [](\A tm \in timers :
          (InSetup /\ auction_state.current_player_id # NULL)
            => LET R == TimerFired(tm)
                   opened == [Cur EXCEPT
                                !.timers = @ \ {tm},
                                !.currentPhase = "bidding",
                                !.auction_state = [@ EXCEPT !.timer_end = BiddingWindowMs]]
               IN /\ R.currentPhase = "bidding"
                  /\ R.auction_state.timer_end = BiddingWindowMs
                  /\ R = TriggerInitialAutoBids(opened)
                  /\ R.timers = {})
  /\ [][PhaseTimerElapses => PhaseTimerFires]_vars
  /\ (InSetup /\ auction_state.current_player_id # NULL) ~> (currentPhase = "bidding")

\* C25 witness: the setup phase with the timer armed, an instruction registered,
\* the setup duration changed since the timer was armed and a drain loop
\* suspended, so that the seed entry stays in the queue when the timer fires.
C25_Witness ==
  /\ InSetup
  /\ auction_state.current_player_id # NULL
  /\ autoBidSettings # NoSettings
  /\ isProcessingBids
  /\ \E tm \in timers :
       /\ tm.delay # setupPhaseDuration
       /\ Len(TimerFired(tm).bidQueue) = Len(bidQueue) + 1

\* C26: at most one Timeout is live in every state; an accepted next-player
\* leaves exactly the Timeout it arms, with phaseTimer holding its handle; an
\* accepted skip-to-bidding and the firing of a Timeout leave none, so
\* startBiddingPhase cannot run a second time from a Timeout left behind.
C26_OneTimerOutstanding ==
  /\ Cardinality(timers) <= 1
  /\ \A player_id \in Players :
       LET R == NextPlayerHandler(Cur, player_id)
       IN R.response.status = 200
            => /\ Cardinality(R.timers) = 1
               /\ \A tm \in R.timers : tm.id = R.phaseTimer
  /\ LET R == SkipToBiddingHandler(Cur)
     IN R.response.status = 200 => R.timers = {}
  /\ \A tm \in timers : TimerFired(tm).timers = {}

\* C26 witness: the setup phase with the Timeout armed, where next-player,
\* skip-to-bidding and the firing can each come next.
C26_Witness ==
  /\ InSetup
  /\ auction_state.current_player_id # NULL
  /\ \E tm \in timers : tm.id = phaseTimer
  /\ NextPlayerHandler(Cur, auction_state.current_player_id).response.status = 200
  /\ SkipToBiddingHandler(Cur).response.status = 200

\* C27: once only the drain loop and the clock act (no request arrives any
\* more), the drain loop eventually ends for good: the queue is empty and no
\* drainer is active.
C27_DrainTerminates ==
  <>[][DrainerWakes \/ Tick(WholeInterval)]_vars
    => <>[](bidQueue = <<>> /\ ~isProcessingBids)

\* seq starts with the entries of front, in their order
StartsWith(seq, front) ==
  /\ Len(front) <= Len(seq)
  /\ SubSeq(seq, 1, Len(front)) = front

\* C28 (as amended): the drain pass examines the head of the queue and only
\* the head, applying it or discarding it, and leaves the entries behind it in
\* front of whatever is appended; every step either empties the queue or
\* takes at most one entry from its head and appends at its tail; and while a
\* player stays on the block every applied bid is above the bid before it, and
\* the bid changes otherwise only when the player is put on the block anew, so
\* no two applied bids of one stay have equal amounts.
C28_FifoAndIncreasing ==
  /\ [](\A i \in 1..Len(drainers) :
          (drainers[i] = 0 /\ Len(bidQueue) > 0)
            => LET bid == Head(bidQueue)
                   R == Drain([Cur EXCEPT !.drainers = RemoveAt(@, i)])
               IN /\ StartsWith(R.bidQueue, Tail(bidQueue))
                  /\ IF ExecuteBidError(Cur, bid) = "none"
                       THEN /\ R.auction_state.current_bid = bid.amount
                            /\ R.auction_state.current_bidder_team_id = bid.teamId
                            /\ R.auction_log =
                                 Append(auction_log,
                                        LogRow(auction_state.current_player_id, bid.teamId,
                                               bid.amount, bid.increment, bid.isAutoBid,
                                               auction_state.season))
                       ELSE /\ R.auction_state = auction_state
                            /\ R.auction_log = auction_log)
  /\ [][\/ bidQueue' = <<>>
        \/ StartsWith(bidQueue', bidQueue)
        \/ bidQueue # <<>> /\ StartsWith(bidQueue', Tail(bidQueue))]_vars
  /\ [][Len(auction_log') > Len(auction_log)
          => /\ Len(auction_log') = Len(auction_log) + 1
             /\ LastRow(auction_log').player_id = auction_state.current_player_id
             /\ LastRow(auction_log').bid_amount > auction_state.current_bid
             /\ auction_state'.current_bid = LastRow(auction_log').bid_amount
             /\ auction_state'.current_player_id = auction_state.current_player_id]_vars
  /\ [][(/\ auction_state.current_player_id # NULL
         /\ auction_state'.current_player_id = auction_state.current_player_id
         /\ auction_log' = auction_log
         /\ auction_state'.current_bid # auction_state.current_bid)
          => /\ currentPhase' = "setup"
             /\ auction_state'.current_bidder_team_id = NULL
             /\ auction_state'.current_bid
                  = players[auction_state.current_player_id].base_price]_vars

\* C28 witness: a drainer is due with two entries queued, the head a manual
\* bid that will be applied, in the second stay of the player on the block.
C28_Witness ==
  /\ Len(bidQueue) >= 2
  /\ \E i \in 1..Len(drainers) : drainers[i] = 0
  /\ ~Head(bidQueue).isAutoBid
  /\ ExecuteBidError(Cur, Head(bidQueue)) = "none"
  /\ Len(auction_log) > 0

\* C28 (as stated): no two rows of the auction log of the same player and
\* season have equal amounts.
C28_NoEqualAmountsForPlayer ==
  \A i \in 1..Len(auction_log) :
    \A j \in 1..Len(auction_log) :
      (/\ i # j
       /\ auction_log[i].player_id = auction_log[j].player_id
       /\ auction_log[i].season = auction_log[j].season)
        => auction_log[i].bid_amount # auction_log[j].bid_amount

\* C29: a bid submitted by the team's owner during bidding for the player on
\* the block, with an amount not above the current bid, is accepted and
\* enqueued all the same.
C29_LowBidStillEnqueued ==
  \A team_id \in Teams :
    \A amount \in Amounts :
      (/\ auction_state.mode = "auction"
       /\ auction_state.current_player_id # NULL
       /\ ~BiddingClosed(Cur)
       /\ HasBiddingAuthority(teams[team_id], team_id, OwnerOf(team_id), "owner")
       /\ amount <= auction_state.current_bid)
        => BidHandler(Cur, OwnerOf(team_id), team_id, amount).response.status = 200

\* C30: an accepted sold flags exactly one row of the auction log of the
\* player sold and the season: the row inserted last, that of the bid which
\* set current_bid and current_bidder_team_id.
C30_OneWinningRow ==
  LET R == SoldHandler(Cur)
  IN R.response.status = 200
       => {i \in 1..Len(R.auction_log) :
             /\ R.auction_log[i].is_winning_bid
             /\ R.auction_log[i].player_id = auction_state.current_player_id
             /\ R.auction_log[i].season = auction_state.season}
            = {Len(R.auction_log)}

\* C31: when two teams register instructions with equal ceilings for the
\* player on the block, the first one after the other, the initial seed picks
\* the team that registered first.
C31_SeedTieByRegistration ==
  \A first \in Teams :
    \A second \in Teams \ {first} :
      \A max_bid \in Amounts :
        LET S1 == AutoBidHandler(Cur, OwnerOf(first), first, max_bid, 1, TRUE)
            S2 == AutoBidHandler(S1, OwnerOf(second), second, max_bid, 1, TRUE)
        IN (/\ InSetup
            /\ auction_state.mode = "auction"
            /\ auction_state.current_player_id # NULL
            /\ autoBidSettings = NoSettings
            /\ S1.response.status = 200
            /\ S2.response.status = 200
            /\ max_bid >= auction_state.current_bid)
             => InitialBidder(S2) = first

\* C32: every step that applies an automatic bid applies it for a team other
\* than the one that held the highest bid before the step.
C32_NoSelfOutbid ==
  [][(/\ Len(auction_log') = Len(auction_log) + 1
      /\ LastRow(auction_log').is_auto_bid)
       => LastRow(auction_log').team_id # auction_state.current_bidder_team_id]_vars

\* C33: a sold or an unsold that is answered 400 returns the phase, the bid
\* queue and the Timeout of the phase as they were.
C33_RejectedLeavesState ==
  /\ LET R == SoldHandler(Cur)
     IN R.response.status = 400
          => /\ R.currentPhase = currentPhase
             /\ R.bidQueue = bidQueue
             /\ R.timers = timers
             /\ R.phaseTimer = phaseTimer
  /\ LET R == UnsoldHandler(Cur)
     IN R.response.status = 400
          => /\ R.currentPhase = currentPhase
             /\ R.bidQueue = bidQueue
             /\ R.timers = timers
             /\ R.phaseTimer = phaseTimer

\* C34: no step taken in the paused phase applies a bid: the auction log, the
\* current bid and the current bidder of the player on the block stay as they
\* are while the phase is paused before and after the step.
C34_NoBidAppliedWhilePaused ==
  [][(/\ currentPhase = "paused"
      /\ currentPhase' = "paused"
      /\ auction_state'.current_player_id = auction_state.current_player_id
      /\ auction_state.current_player_id # NULL)
       => /\ auction_log' = auction_log
          /\ auction_state'.current_bid = auction_state.current_bid
          /\ auction_state'.current_bidder_team_id
               = auction_state.current_bidder_team_id]_vars

\* C35: in every state whose phase is setup, with a player on the block, a
\* Timeout of the phase is live.
C35_SetupHasTimer ==
  (InSetup /\ auction_state.current_player_id # NULL) => timers # {}

\* C36: no team's remaining budget is negative, the highest bid never exceeds
\* the remaining budget of the team that holds it, and the price an accepted
\* sold debits is at most the remaining budget of the winning team.
C36_BudgetNeverNegative ==
  /\ \A t \in Teams : teams[t].budget_remaining >= 0
  /\ auction_state.current_bidder_team_id # NULL
       => auction_state.current_bid
            <= teams[auction_state.current_bidder_team_id].budget_remaining
  /\ LET R == SoldHandler(Cur)
     IN R.response.status = 200
          => /\ auction_state.current_bid
                  <= teams[auction_state.current_bidder_team_id].budget_remaining
             /\ \A t \in Teams : R.teams[t].budget_remaining >= 0

\* C36 witness: a sale has brought one team's budget to 0, another player is
\* on the block with a bidder, and sold is about to be accepted again.
C36_Witness ==
  /\ \E t \in Teams : teams[t].budget_remaining = 0
  /\ auction_state.current_bidder_team_id # NULL
  /\ SoldHandler(Cur).response.status = 200

\* C37: no player has roster rows of two teams for one season, and the player
\* on the block is available.
C37_OneRosterAndAvailable ==
  /\ \A r1 \in team_roster :
       \A r2 \in team_roster :
         (r1.player_id = r2.player_id /\ r1.season = r2.season)
           => r1.team_id = r2.team_id
  /\ auction_state.current_player_id # NULL
       => players[auction_state.current_player_id].is_available

\* C38: a step that changes the player on the block, to another player or
\* within one mode (sold, unsold, set-next-player), empties the queue and
\* applies nothing: no row against the new player is added, the new player has
\* no bidder, and a drainer that was suspended across the change applies
\* nothing when it resumes.
C38_EntriesDieWithPlayer ==
  [][(auction_state'.current_player_id # auction_state.current_player_id
       /\ (auction_state'.current_player_id # NULL \/ auction_state'.mode = auction_state.mode))
       => /\ bidQueue' = <<>>
          /\ \A i \in 1..Len(auction_log') :
               auction_log'[i].player_id = auction_state'.current_player_id
                 => \E j \in 1..Len(auction_log) : auction_log[j] = auction_log'[i]
          /\ auction_state'.current_player_id # NULL
               => auction_state'.current_bidder_team_id = NULL
          /\ \A i \in 1..Len(drainers') :
               LET R == Drain([Cur EXCEPT !.drainers = RemoveAt(@, i)])'
               IN R.auction_log = auction_log' /\ R.auction_state = auction_state']_vars

C38_Witness ==
  /\ drainers # <<>>
  /\ bidQueue = <<>>
  /\ isProcessingBids
  /\ InSetup
  /\ auction_state.current_player_id = 2
  /\ auction_log # <<>>

\* C39: an automatic bid is applied only for a team that holds an active
\* instruction: every automatic row a step adds to the bid log belongs to a
\* team with an instruction after the step.
C39_NoAutoBidAfterDisable ==
  [][\A i \in (Len(auction_log) + 1)..Len(auction_log') :
       auction_log'[i].is_auto_bid
         => /\ auction_log'[i].team_id \in DOMAIN autoBidSettings'
            /\ autoBidSettings'[auction_log'[i].team_id].active]_vars

====
